---- MODULE Spec2Model ----
(***************************************************************************)
(* The job lifecycle manager of pandexo/engine/run_online.py: the shared   *)
(* registry BaseHandler.buffer, the futures handed out by                  *)
(* BaseHandler.executor, the files of __TEMP__, and the request handlers   *)
(* of the Tornado application.  Every handler is a plain synchronous       *)
(* method run on the single IOLoop thread, so a handler is one step,       *)
(* except where it calls Future.result() on an unfinished future: there    *)
(* the IOLoop thread itself waits; requests that arrive meanwhile stay in  *)
(* the backlog until the handler returns.                                  *)
(***************************************************************************)
EXTENDS Integers, Sequences, FiniteSets, Bags, TLC

VARIABLES
    buffer,     \* BaseHandler.buffer: OrderedDict as the sequence of its values
    fut,        \* the futures returned by executor.submit, in submission order
    files,      \* the names of the files of __TEMP__
    nuuid,      \* number of uuid4() values drawn so far
    nposts,     \* post requests handled since Init
    submitted,  \* history: what _add_task inserted, in order
    loop,       \* the IOLoop thread: Idle, or the handler waiting in result()
    backlog,    \* requests that arrived while the IOLoop thread was busy
    workload,   \* what the clients of this run send (fixed by Init)
    resp        \* the response the last step wrote, NoResp if it wrote none

vars == <<buffer, fut, files, nuuid, nposts, submitted, loop, backlog, workload, resp>>

----------------------------------------------------------------------------
(* Bounds of the model *)

\* post requests handled after Init
MaxSubmit == 2
\* requests that can wait while the IOLoop thread is busy
MaxBacklog == 2
\* the jobs the pool starts in a run that begins with a full queue
MaxStarts == 1

(* Program constants *)

\* if len(self.buffer) > 100
Capacity == 100
\* define("workers", default=4, ...)
Workers == 4

Owners == {"u1", "u2"}
\* self.get_cookie("pandexo_user") of a request that carries no such cookie
NoCookie == "None"
\* what get_cookie can return: HomeHandler.get alone sets the cookie
Cookies == Owners \cup {NoCookie}
CalcName == "calc"

----------------------------------------------------------------------------
(* Job identifiers and file names are strings; a string is modelled as the *)
(* sequence of its parts, so that suffix and substring tests are computed. *)

\* str(uuid.uuid4()): the n-th value drawn
Uuid(n) == <<ToString(n)>>

\* id = str(uuid.uuid4())+'e'   /   +'h'
NewId(n, tag) == Uuid(n) \o <<tag>>

\* id[len(id)-1]
LastChar(id) == id[Len(id)]

\* an id no uuid4() call returned
GhostId == <<"0", "e">>

\* i.find(id) != -1
Contains(name, id) ==
    \E i \in 1..(Len(name) - Len(id) + 1) : SubSeq(name, i, i + Len(id) - 1) = id

\* cname_plan = id+'planet' + extn_plan ; cname_noise = id + 'noise' + extn_noise
UploadName(id, what) == id \o <<what, ".dat">>

\* file_name = "ETC-calculation" +id+".p"
PickleName(id) == <<"ETC-calculation">> \o id \o <<".p">>

\* file_name = "PandExo-Input-file"+id+".txt"
PandInName(id) == <<"PandExo-Input-file">> \o id \o <<".txt">>

\* a sweep that tests i.startswith(id) in place of i.find(id) != -1
SweepByPrefix(fs, id) == {f \in fs : SubSeq(f, 1, Len(id)) # id}

\* a sweep that removes every file of __TEMP__
SweepAll(fs, id) == {}

\* allfiles = os.listdir(__TEMP__); for i in allfiles: if i.find(id) != -1: os.remove(i)
Sweep(fs, id) == {f \in fs : ~Contains(f, id)}

----------------------------------------------------------------------------
(* The registry *)

Ids(buf) == [i \in 1..Len(buf) |-> buf[i].id]

\* self.buffer.get(id) is not None
Has(buf, id) == \E i \in 1..Len(buf) : buf[i].id = id

\* self.buffer.get(id), for a key of the buffer
Get(buf, id) == buf[CHOOSE i \in 1..Len(buf) : buf[i].id = id]

\* self.buffer[id] = value: a new key goes last, an old key keeps its place
Put(buf, rec) ==
    IF Has(buf, rec.id)
    THEN [i \in 1..Len(buf) |-> IF buf[i].id = rec.id THEN rec ELSE buf[i]]
    ELSE Append(buf, rec)

\* _add_task without its popitem
AddTaskNoEviction(buf, id, name, task, cookie) ==
    Put(buf, [id |-> id, name |-> name, task |-> task,
              cookie |-> cookie, count |-> Len(buf) + 1])

\* _add_task with popitem(last=True)
AddTaskEvictNewest(buf, id, name, task, cookie) ==
    LET ins == AddTaskNoEviction(buf, id, name, task, cookie)
    IN  IF Len(ins) > Capacity THEN SubSeq(ins, 1, Len(ins) - 1) ELSE ins

\* _add_task with len(self.buffer) >= 100
AddTaskEvictAtCapacity(buf, id, name, task, cookie) ==
    LET ins == AddTaskNoEviction(buf, id, name, task, cookie)
    IN  IF Len(ins) >= Capacity THEN Tail(ins) ELSE ins

\* _add_task whose test and popitem run twice
AddTaskEvictTwice(buf, id, name, task, cookie) ==
    LET ins == AddTaskNoEviction(buf, id, name, task, cookie)
    IN  IF Len(ins) > Capacity THEN Tail(Tail(ins)) ELSE ins

\* _add_task with count=len(self.buffer)
AddTaskCountFromZero(buf, id, name, task, cookie) ==
    LET ins == Put(buf, [id |-> id, name |-> name, task |-> task,
                         cookie |-> cookie, count |-> Len(buf)])
    IN  IF Len(ins) > Capacity THEN Tail(ins) ELSE ins

\* _add_task on a registry that puts a new key first
AddTaskInsertFirst(buf, id, name, task, cookie) ==
    LET ins == <<[id |-> id, name |-> name, task |-> task,
                  cookie |-> cookie, count |-> Len(buf) + 1]>> \o buf
    IN  IF Len(ins) > Capacity THEN Tail(ins) ELSE ins

\* _add_task that renumbers the records after its popitem
AddTaskRenumber(buf, id, name, task, cookie) ==
    LET ins == AddTaskNoEviction(buf, id, name, task, cookie)
        kept == IF Len(ins) > Capacity THEN Tail(ins) ELSE ins
    IN  [i \in 1..Len(kept) |-> [kept[i] EXCEPT !.count = i]]

\* BaseHandler._add_task
AddTask(buf, id, name, task, cookie) ==
    LET rec == [id |-> id, name |-> name, task |-> task,
                cookie |-> cookie, count |-> Len(buf) + 1]
        ins == Put(buf, rec)
    IN  IF Len(ins) > Capacity THEN Tail(ins) ELSE ins

----------------------------------------------------------------------------
(* Futures: concurrent.futures.Future as the code reads it *)

\* Future.running(), Future.done(), Future.cancelled(): a cancelled future
\* is done as well
Running(f) == f.st = "running"
Done(f) == f.st \in {"finished", "cancelled"}
Cancelled(f) == f.st = "cancelled"

\* what the compute function (wrapper) of the k-th submitted job returns, and
\* the exception it raises, as kind and message
Value(k) == <<"result", ToString(k)>>
Error(k) == <<"Exception", ToString(k)>>

NoResult == [task |-> 0, raised |-> FALSE, val |-> <<>>, again |-> FALSE, after |-> "none"]

\* a result() that takes the outcome of the future submitted last, whatever
\* handle the record holds
TaskResultOfLast(futs, task) ==
    [task |-> task, raised |-> futs[Len(futs)].exc,
     val |-> IF futs[Len(futs)].exc THEN Error(Len(futs)) ELSE Value(Len(futs)),
     again |-> FALSE, after |-> "none"]

\* a result() that returns None where the compute function raised
TaskResultSwallows(futs, task) ==
    [task |-> task, raised |-> FALSE,
     val |-> IF futs[task].exc THEN <<>> ELSE Value(task), again |-> FALSE,
     after |-> "none"]

\* task.result() on a done future: the value the compute function returned,
\* or the exception it raised, raised again in the caller
TaskResult(futs, task) ==
    [task |-> task, raised |-> futs[task].exc,
     val |-> IF futs[task].exc THEN Error(task) ELSE Value(task), again |-> FALSE,
     after |-> "none"]

\* the record fields every snapshot starts with
Snapshot(calc_task, id, state) ==
    [id |-> id, name |-> calc_task.name, count |-> calc_task.count, state |-> state]

\* _get_task_response with a branch that reports a raised compute function
GetTaskResponseFailed(buf, futs, id) ==
    LET calc_task == Get(buf, id)
        task == futs[calc_task.task]
    IN  IF Running(task)
        THEN [id |-> id, name |-> calc_task.name, count |-> calc_task.count,
              state |-> "running", code |-> 202]
        ELSE IF Done(task) /\ task.exc THEN Snapshot(calc_task, id, "failed")
        ELSE IF Done(task) THEN Snapshot(calc_task, id, "finished")
        ELSE Snapshot(calc_task, id, "pending")

\* _get_task_response that sets the code before it looks at the future
GetTaskResponseCodeAlways(buf, futs, id) ==
    LET calc_task == Get(buf, id)
        task == futs[calc_task.task]
        state == IF Running(task) THEN "running"
                 ELSE IF Done(task) THEN "finished"
                 ELSE IF Cancelled(task) THEN "cancelled"
                 ELSE "pending"
    IN  [id |-> id, name |-> calc_task.name, count |-> calc_task.count,
         state |-> state, code |-> 202]

\* _get_task_response that keeps reporting running once the compute
\* function has raised
GetTaskResponseStillRunning(buf, futs, id) ==
    LET calc_task == Get(buf, id)
        task == futs[calc_task.task]
    IN  IF Running(task) \/ (Done(task) /\ task.exc)
        THEN [id |-> id, name |-> calc_task.name, count |-> calc_task.count,
              state |-> "running", code |-> 202]
        ELSE IF Done(task) THEN Snapshot(calc_task, id, "finished")
        ELSE Snapshot(calc_task, id, "pending")

\* _get_task_response that reports failed for the job whose result() has
\* just raised in a handler
GetTaskResponseFailedOnceRead(buf, futs, id) ==
    LET calc_task == Get(buf, id)
        task == futs[calc_task.task]
    IN  IF Running(task)
        THEN [id |-> id, name |-> calc_task.name, count |-> calc_task.count,
              state |-> "running", code |-> 202]
        ELSE IF Done(task) /\ resp.result.raised /\ resp.result.task = calc_task.task
        THEN Snapshot(calc_task, id, "failed")
        ELSE IF Done(task) THEN Snapshot(calc_task, id, "finished")
        ELSE Snapshot(calc_task, id, "pending")

\* BaseHandler._get_task_response, for an id of the buffer
GetTaskResponse(buf, futs, id) ==
    LET calc_task == Get(buf, id)
        task == futs[calc_task.task]
    IN  IF Running(task)
        THEN [id |-> id, name |-> calc_task.name, count |-> calc_task.count,
              state |-> "running", code |-> 202]
        ELSE IF Done(task)
        THEN [id |-> id, name |-> calc_task.name, count |-> calc_task.count,
              state |-> "finished"]
        ELSE IF Cancelled(task)
        THEN [id |-> id, name |-> calc_task.name, count |-> calc_task.count,
              state |-> "cancelled"]
        ELSE [id |-> id, name |-> calc_task.name, count |-> calc_task.count,
              state |-> "pending"]

\* _get_task_response_hst with task.cancelled() tested before task.done()
GetTaskResponseHstCancelledFirst(buf, futs, id) ==
    LET calc_task == Get(buf, id)
        task == futs[calc_task.task]
    IN  IF Running(task)
        THEN [id |-> id, name |-> calc_task.name, count |-> calc_task.count,
              state |-> "running", code |-> 202]
        ELSE IF Cancelled(task) THEN Snapshot(calc_task, id, "cancelled")
        ELSE IF Done(task) THEN Snapshot(calc_task, id, "finished")
        ELSE Snapshot(calc_task, id, "pending")

\* BaseHandler._get_task_response_hst, for an id of the buffer
GetTaskResponseHst(buf, futs, id) ==
    LET calc_task == Get(buf, id)
        task == futs[calc_task.task]
    IN  IF Running(task)
        THEN [id |-> id, name |-> calc_task.name, count |-> calc_task.count,
              state |-> "running", code |-> 202]
        ELSE IF Done(task)
        THEN [id |-> id, name |-> calc_task.name, count |-> calc_task.count,
              state |-> "finished"]
        ELSE IF Cancelled(task)
        THEN [id |-> id, name |-> calc_task.name, count |-> calc_task.count,
              state |-> "cancelled"]
        ELSE [id |-> id, name |-> calc_task.name, count |-> calc_task.count,
              state |-> "pending"]

----------------------------------------------------------------------------
(* Requests.  A request in the backlog is its URL: the handler and the id. *)
(* What a handler reads from the request while it runs (the pandexo_user   *)
(* cookie, the form, whether the connection is closed) is drawn when the   *)
(* handler runs.                                                           *)

PostKinds == {"new", "newHST"}
NoIdKinds == {"dashboard", "dashboardhst"} \cup PostKinds
IdKinds == {"status", "statushst", "view", "viewhst", "download", "downloadpandin"}
ResultKinds == {"view", "viewhst", "download", "downloadpandin"}

NoId == <<>>
Idle == [kind |-> "idle", id |-> NoId, task |-> 0]
NoResp == [kind |-> "none", id |-> NoId, cookie |-> "", status |-> 0,
           out |-> "none", body |-> <<>>, result |-> NoResult]

\* the ids a request URL carries: the id registered first, the id registered
\* last, and an id that was never issued
TargetIds ==
    {submitted[i].id : i \in {1, Len(submitted)} \cap 1..Len(submitted)}
        \cup {GhostId}

\* The clients of one run send the requests of one workload.  "dashboard":
\* several owners submit without uploads and list their jobs.
\* "results": one owner submits with uploads, views and downloads.
\* "polling": one owner submits without uploads, polls and views (JWST view),
\* also while a view waits for its job.
\* "burst": one owner submits to a registry that holds Capacity records and
\* views, also while a view waits for its job.
\* "sharing": callers download, view and poll the job registered at Init,
\* also while a request waits for that job; nobody submits.
\* "forms": one owner posts forms of every kind, also the resolve_target
\* button and incomplete forms, and polls.
Workloads == {"dashboard", "results", "polling", "burst", "sharing", "forms"}

Kinds(w) ==
    IF w = "dashboard"
    THEN PostKinds \cup {"dashboard", "dashboardhst"}
    ELSE IF w = "results"
    THEN PostKinds \cup ResultKinds
    ELSE IF w = "polling"
    THEN PostKinds \cup {"status", "view"}
    ELSE IF w = "burst"
    THEN PostKinds \cup {"view"}
    ELSE IF w = "sharing"
    THEN {"download", "view", "statushst"}
    ELSE IF w = "abandon"
    THEN PostKinds
    ELSE PostKinds \cup {"status", "statushst"}

\* the workloads whose clients send a request while another is outstanding
Overlapping(w) == w \in {"polling", "burst", "sharing"}

Requests ==
    {[kind |-> k, id |-> NoId] : k \in NoIdKinds \cap Kinds(workload)}
        \cup {[kind |-> k, id |-> i] : k \in IdKinds \cap Kinds(workload), i \in TargetIds}

\* the waiting requests of the given handlers, as a bag
Waiting(kinds) == [r \in {q \in BagToSet(backlog) : q.kind \in kinds} |-> backlog[r]]

PostsWaiting == BagCardinality(Waiting(PostKinds))

Admitted(r) == r.kind \in PostKinds => nposts + PostsWaiting < MaxSubmit

\* the requests of one handler the IOLoop can dispatch now, each with the
\* backlog it leaves: a waiting request first, else one that arrives now
Sources(kind) ==
    IF backlog = EmptyBag
    THEN {<<r, backlog>> : r \in {q \in Requests : q.kind = kind /\ Admitted(q)}}
    ELSE {<<r, backlog (-) SetToBag({r})>> : r \in BagToSet(Waiting({kind}))}

Response(kind, id, cookie, status, out, body) ==
    [kind |-> kind, id |-> id, cookie |-> cookie, status |-> status,
     out |-> out, body |-> body, result |-> NoResult]

\* an exception that is no HTTPError leaves the handler: Tornado answers
\* send_error(500) through BaseHandler.write_error
ServerError(kind, id) == Response(kind, id, "", 500, "error", <<>>)

Reverse(s) == [i \in 1..Len(s) |-> s[Len(s) + 1 - i]]

----------------------------------------------------------------------------
(* Dashboards *)

\* the filter with | in place of &
DashboardFilterEither(nt, cookie) == nt.cookie = cookie \/ LastChar(nt.id) = "e"

\* (nt.cookie == self.get_cookie("pandexo_user")) & (id[len(id)-1]=='e')
DashboardFilter(nt, cookie) == nt.cookie = cookie /\ LastChar(nt.id) = "e"

\* (nt.cookie == self.get_cookie("pandexo_user")) & (id[len(id)-1]=='h')
DashboardHSTFilter(nt, cookie) == nt.cookie = cookie /\ LastChar(nt.id) = "h"

\* DashboardHandler.get
DashboardHandlerGet ==
    /\ loop = Idle
    /\ \E s \in Sources("dashboard"), cookie \in Cookies :
          LET shown == SelectSeq(buffer, LAMBDA nt : DashboardFilter(nt, cookie))
              task_responses ==
                  [i \in 1..Len(shown) |-> GetTaskResponse(buffer, fut, shown[i].id)]
          IN  /\ backlog' = s[2]
              /\ resp' = Response("dashboard", NoId, cookie, 200, "rendered",
                                  Reverse(task_responses))
    /\ UNCHANGED <<buffer, fut, files, nuuid, nposts, submitted, loop, workload>>

\* DashboardHSTHandler.get
DashboardHSTHandlerGet ==
    /\ loop = Idle
    /\ \E s \in Sources("dashboardhst"), cookie \in Cookies :
          LET shown == SelectSeq(buffer, LAMBDA nt : DashboardHSTFilter(nt, cookie))
              task_responses ==
                  [i \in 1..Len(shown) |-> GetTaskResponseHst(buffer, fut, shown[i].id)]
          IN  /\ backlog' = s[2]
              /\ resp' = Response("dashboardhst", NoId, cookie, 200, "rendered",
                                  Reverse(task_responses))
    /\ UNCHANGED <<buffer, fut, files, nuuid, nposts, submitted, loop, workload>>

----------------------------------------------------------------------------
(* Submission *)

\* the files a post can write to __TEMP__ before it dispatches: planFile
\* (both handlers) and, for JWST, the noise file opened under noiseModel "user"
Uploads(tag) == IF tag = "e" THEN {"planet", "noise"} ELSE {"planet"}

\* What the handler reads from the request.  path: the resolve_target button
\* ("exomast") or the submit button.  fail: "none"; "form", a required form
\* argument is absent (get_argument raises MissingArgumentError, an HTTPError
\* 400) after the uploads were written; "calcName", the same for calcName,
\* which is read after executor.submit.  ups: the uploads the handler writes.
\* cookie: pandexo_user.
Forms(tag) ==
    IF workload = "dashboard"
    THEN {[path |-> "submit", fail |-> "none", ups |-> {}, cookie |-> c] : c \in Cookies}
    ELSE IF workload = "forms"
    THEN {[path |-> "exomast", fail |-> "none", ups |-> {}, cookie |-> "u1"],
          [path |-> "submit", fail |-> "form", ups |-> Uploads(tag), cookie |-> "u1"],
          [path |-> "submit", fail |-> "calcName", ups |-> {}, cookie |-> "u1"],
          [path |-> "submit", fail |-> "none", ups |-> {}, cookie |-> "u1"]}
    ELSE IF workload = "results"
    THEN {[path |-> "submit", fail |-> "none", ups |-> Uploads(tag), cookie |-> "u1"]}
    ELSE {[path |-> "submit", fail |-> "none", ups |-> {}, cookie |-> "u1"]}

\* the body of CalculationNewHandler.post (tag "e") and of
\* CalculationNewHSTHandler.post (tag "h")
Post(kind, tag, form, bl) ==
    LET id == NewId(nuuid + 1, tag)
        written == files \cup {UploadName(id, w) : w \in form.ups}
        task == Len(fut) + 1
        futs == Append(fut, [st |-> "pending", exc |-> FALSE])
        buf == AddTask(buffer, id, CalcName, task, form.cookie)
    IN  /\ nuuid' = nuuid + 1
        /\ nposts' = nposts + 1
        /\ backlog' = bl
        /\ UNCHANGED <<loop, workload>>
        /\ IF form.path = "exomast"
           THEN /\ resp' = Response(kind, id, "", 200, "rendered", <<>>)
                /\ UNCHANGED <<buffer, fut, files, submitted>>
           ELSE IF form.fail = "form"
           THEN /\ files' = written
                /\ resp' = Response(kind, id, "", 400, "error", <<>>)
                /\ UNCHANGED <<buffer, fut, submitted>>
           ELSE IF form.fail = "calcName"
           THEN /\ files' = written
                /\ fut' = futs
                /\ resp' = Response(kind, id, "", 400, "error", <<>>)
                /\ UNCHANGED <<buffer, submitted>>
           ELSE /\ files' = written
                /\ fut' = futs
                /\ buffer' = buf
                /\ submitted' = Append(submitted,
                                       [id |-> id, cookie |-> form.cookie, ups |-> form.ups])
                /\ resp' = IF ~Has(buf, id)
                           THEN ServerError(kind, id)
                           ELSE Response(kind, id, form.cookie, 302, "redirect",
                                         IF tag = "e"
                                         THEN GetTaskResponse(buf, futs, id)
                                         ELSE GetTaskResponseHst(buf, futs, id))

\* CalculationNewHandler.post
CalculationNewHandlerPost ==
    /\ loop = Idle
    /\ \E s \in Sources("new"), form \in Forms("e") : Post("new", "e", form, s[2])

\* CalculationNewHSTHandler.post
CalculationNewHSTHandlerPost ==
    /\ loop = Idle
    /\ \E s \in Sources("newHST"), form \in Forms("h") : Post("newHST", "h", form, s[2])

----------------------------------------------------------------------------
(* Status *)

\* a status response; after: how the response before this one ended, when
\* it was built on a result() of the future this one reports on
Polled(r, id) ==
    [r EXCEPT !.result.after =
        IF resp.result.task = Get(buffer, id).task THEN resp.out ELSE "none"]

\* CalculationStatusHandler.get
CalculationStatusHandlerGet ==
    /\ loop = Idle
    /\ \E s \in Sources("status") :
          LET id == s[1].id
          IN  /\ backlog' = s[2]
              /\ IF ~Has(buffer, id)
                 THEN resp' = ServerError("status", id)
                 ELSE \E closed \in BOOLEAN :
                         resp' = IF closed
                                 THEN Response("status", id, "", 200, "closed", <<>>)
                                 ELSE Polled(Response("status", id, "", 200, "written",
                                                      GetTaskResponse(buffer, fut, id)),
                                             id)
    /\ UNCHANGED <<buffer, fut, files, nuuid, nposts, submitted, loop, workload>>

\* CalculationStatusHSTHandler.get
CalculationStatusHSTHandlerGet ==
    /\ loop = Idle
    /\ \E s \in Sources("statushst") :
          LET id == s[1].id
          IN  /\ backlog' = s[2]
              /\ IF ~Has(buffer, id)
                 THEN resp' = ServerError("statushst", id)
                 ELSE \E closed \in BOOLEAN :
                         resp' = IF closed
                                 THEN Response("statushst", id, "", 200, "closed", <<>>)
                                 ELSE Polled(Response("statushst", id, "", 200, "written",
                                                      GetTaskResponseHst(buffer, fut, id)),
                                             id)
    /\ UNCHANGED <<buffer, fut, files, nuuid, nposts, submitted, loop, workload>>

----------------------------------------------------------------------------
(* Results, views and downloads.  Each handler starts with                 *)
(* _get_task_result(id): buffer.get(id), then task.result(), which returns *)
(* the value, re-raises the exception of the compute function, or, for an  *)
(* unfinished future, makes the calling thread wait.  The ...Rest          *)
(* definitions are the handlers from the return of result() on.            *)

\* the handlers that read a result as one of the JWST family, and as one of
\* the HST family
JwstKinds == {"view", "downloadpandin"}
HstKinds == {"viewhst"}

\* the handler reads the result of a job of the other family
Foreign(kind, id) ==
    \/ kind \in JwstKinds /\ LastChar(id) = "h"
    \/ kind \in HstKinds /\ LastChar(id) = "e"

\* whether reading the result raises: the keys of a result are set outside
\* this file, so a result of the other family may or may not have them
ReadRaises(kind, id) == IF Foreign(kind, id) THEN BOOLEAN ELSE {FALSE}

\* a handler that writes its file before it waits for the result
WaitAfterMaterialize(kind, id, task, bl) ==
    /\ loop' = [kind |-> kind, id |-> id, task |-> task]
    /\ backlog' = bl
    /\ resp' = NoResp
    /\ files' = files \cup {PickleName(id)}
    /\ UNCHANGED <<buffer, fut, nuuid, nposts, submitted, workload>>

\* the handler's thread waits in task.result()
WaitForResult(kind, id, task, bl) ==
    /\ loop' = [kind |-> kind, id |-> id, task |-> task]
    /\ backlog' = bl
    /\ resp' = NoResp
    /\ UNCHANGED <<buffer, fut, files, nuuid, nposts, submitted, workload>>

\* what result() gives the handler; again: the response before this one
\* was built on a result() of the same future; after: how that response
\* ended
Result(task) ==
    [TaskResult(fut, task) EXCEPT
        !.again = (resp.result.task = task),
        !.after = IF resp.result.task = task THEN resp.out ELSE "none"]

WithResult(r, res) == [r EXCEPT !.result = res]

\* the exception result() raised leaves the handler: send_error(500), and
\* write_error renders traceback.format_exception(*exc_info) as error_log
Raised(kind, id, res) ==
    WithResult(Response(kind, id, "", 500, "error", res.val), res)

\* a download that sweeps the files of the job also when result() raised
DownloadRestSweepsOnError(id, task) ==
    LET res == Result(task)
    IN  IF res.raised
        THEN resp' = Raised("download", id, res) /\ files' = Sweep(files, id)
        ELSE \E closed \in BOOLEAN :
                IF closed
                THEN /\ resp' = WithResult(Response("download", id, "", 200, "closed", <<>>),
                                           res)
                     /\ UNCHANGED files
                ELSE /\ files' = Sweep(files \cup {PickleName(id)}, id)
                     /\ resp' = WithResult(Response("download", id, "", 200, "streamed",
                                                    PickleName(id)), res)

\* CalculationDownloadHandler.get after result()
DownloadRest(id, task) ==
    LET res == Result(task)
    IN  IF res.raised
        THEN resp' = Raised("download", id, res) /\ UNCHANGED files
        ELSE \E closed \in BOOLEAN :
                IF closed
                THEN /\ resp' = WithResult(Response("download", id, "", 200, "closed", <<>>),
                                           res)
                     /\ UNCHANGED files
                ELSE /\ files' = Sweep(files \cup {PickleName(id)}, id)
                     /\ resp' = WithResult(Response("download", id, "", 200, "streamed",
                                                    PickleName(id)), res)

\* CalculationDownloadPandInHandler.get after result()
DownloadPandInRest(id, task) ==
    LET res == Result(task)
    IN  IF res.raised
        THEN resp' = Raised("downloadpandin", id, res) /\ UNCHANGED files
        ELSE \E closed \in BOOLEAN :
                IF closed
                THEN /\ resp' = WithResult(Response("downloadpandin", id, "", 200,
                                                    "closed", <<>>), res)
                     /\ UNCHANGED files
                ELSE \E raised \in ReadRaises("downloadpandin", id) :
                        IF raised
                        THEN /\ resp' = WithResult(ServerError("downloadpandin", id), res)
                             /\ UNCHANGED files
                        ELSE /\ files' = Sweep(files \cup {PandInName(id)}, id)
                             /\ resp' = WithResult(Response("downloadpandin", id, "", 200,
                                                            "streamed", PandInName(id)),
                                                   res)

\* CalculationViewHandler.get after result()
ViewRest(id, task) ==
    LET res == Result(task)
    IN  IF res.raised
        THEN resp' = Raised("view", id, res) /\ UNCHANGED files
        ELSE \E raised \in ReadRaises("view", id) :
                IF raised
                THEN resp' = WithResult(ServerError("view", id), res) /\ UNCHANGED files
                ELSE /\ files' = Sweep(files, id)
                     /\ resp' = WithResult(Response("view", id, "", 200, "rendered", <<>>),
                                           res)

\* CalculationViewHSTHandler.get after result()
ViewHSTRest(id, task) ==
    LET res == Result(task)
    IN  IF res.raised
        THEN resp' = Raised("viewhst", id, res) /\ UNCHANGED files
        ELSE \E raised \in ReadRaises("viewhst", id) :
                IF raised
                THEN resp' = WithResult(ServerError("viewhst", id), res) /\ UNCHANGED files
                ELSE /\ resp' = WithResult(Response("viewhst", id, "", 200, "rendered",
                                                    <<>>), res)
                     /\ UNCHANGED files

Rest(kind, id, task) ==
    CASE kind = "download" -> DownloadRest(id, task)
      [] kind = "downloadpandin" -> DownloadPandInRest(id, task)
      [] kind = "view" -> ViewRest(id, task)
      [] kind = "viewhst" -> ViewHSTRest(id, task)

\* a handler that starts with _get_task_result(id)
ResultHandler(kind) ==
    \E s \in Sources(kind) :
          LET id == s[1].id
          IN  IF ~Has(buffer, id)
              THEN /\ resp' = ServerError(kind, id)
                   /\ backlog' = s[2]
                   /\ UNCHANGED <<buffer, fut, files, nuuid, nposts, submitted, loop, workload>>
              ELSE LET task == Get(buffer, id).task
                   IN  IF ~Done(fut[task])
                       THEN WaitForResult(kind, id, task, s[2])
                       ELSE /\ Rest(kind, id, task)
                            /\ backlog' = s[2]
                            /\ UNCHANGED <<buffer, fut, nuuid, nposts, submitted, loop, workload>>

CalculationDownloadHandlerGet ==
    /\ loop = Idle
    /\ ResultHandler("download")

CalculationDownloadPandInHandlerGet ==
    /\ loop = Idle
    /\ ResultHandler("downloadpandin")

CalculationViewHandlerGet ==
    /\ loop = Idle
    /\ ResultHandler("view")

CalculationViewHSTHandlerGet ==
    /\ loop = Idle
    /\ ResultHandler("viewhst")

\* a handler that drops the record of the job once it has the result
ResultReturnsForgets ==
    /\ loop # Idle
    /\ Done(fut[loop.task])
    /\ Rest(loop.kind, loop.id, loop.task)
    /\ loop' = Idle
    /\ buffer' = SelectSeq(buffer, LAMBDA nt : nt.id # loop.id)
    /\ UNCHANGED <<fut, nuuid, nposts, submitted, backlog, workload>>

\* task.result() returns or raises in the handler that waited for it
ResultReturns ==
    /\ loop # Idle
    /\ Done(fut[loop.task])
    /\ Rest(loop.kind, loop.id, loop.task)
    /\ loop' = Idle
    /\ UNCHANGED <<buffer, fut, nuuid, nposts, submitted, backlog, workload>>

\* a request reaches the server while the IOLoop thread waits in result()
Arrive ==
    /\ loop # Idle
    /\ Overlapping(workload)
    /\ BagCardinality(backlog) < MaxBacklog
    /\ \E r \in Requests : Admitted(r) /\ backlog' = backlog (+) SetToBag({r})
    /\ resp' = NoResp
    /\ UNCHANGED <<buffer, fut, files, nuuid, nposts, submitted, loop, workload>>

----------------------------------------------------------------------------
(* The worker processes of the ProcessPoolExecutor *)

\* a pool that starts only the work items whose record is in the registry
WorkerStartRegistered ==
    \E k \in 1..Len(fut) :
       /\ fut[k].st = "pending"
       /\ \E i \in 1..Len(buffer) : buffer[i].task = k
       /\ \A j \in 1..(k - 1) : fut[j].st # "pending"
       /\ Cardinality({j \in 1..Len(fut) : Running(fut[j])}) < Workers
       /\ fut' = [fut EXCEPT ![k].st = "running"]
       /\ resp' = NoResp
       /\ UNCHANGED <<buffer, files, nuuid, nposts, submitted, loop, backlog, workload>>

\* a pool that also runs again a work item that is done
WorkerStartAgain ==
    \E k \in 1..Len(fut) :
       /\ fut[k].st \in {"pending", "finished"}
       /\ Cardinality({j \in 1..Len(fut) : Running(fut[j])}) < Workers
       /\ fut' = [fut EXCEPT ![k] = [st |-> "running", exc |-> FALSE]]
       /\ resp' = NoResp
       /\ UNCHANGED <<buffer, files, nuuid, nposts, submitted, loop, backlog, workload>>

\* the pool takes the oldest pending work item when a worker is free
WorkerStart ==
    \E k \in 1..Len(fut) :
       /\ fut[k].st = "pending"
       /\ \A j \in 1..(k - 1) : fut[j].st # "pending"
       /\ Cardinality({j \in 1..Len(fut) : Running(fut[j])}) < Workers
       /\ fut' = [fut EXCEPT ![k].st = "running"]
       /\ resp' = NoResp
       /\ UNCHANGED <<buffer, files, nuuid, nposts, submitted, loop, backlog, workload>>

\* a pool that puts the work item of a worker back in its queue
WorkerFinishRequeue ==
    \E k \in 1..Len(fut) :
       /\ Running(fut[k])
       /\ fut' = [fut EXCEPT ![k].st = "pending"]
       /\ resp' = NoResp
       /\ UNCHANGED <<buffer, files, nuuid, nposts, submitted, loop, backlog, workload>>

\* wrapper(finaldata) returns or raises in a worker
WorkerFinish ==
    \E k \in 1..Len(fut), exc \in BOOLEAN :
       /\ Running(fut[k])
       /\ fut' = [fut EXCEPT ![k] = [st |-> "finished", exc |-> exc]]
       /\ resp' = NoResp
       /\ UNCHANGED <<buffer, files, nuuid, nposts, submitted, loop, backlog, workload>>

----------------------------------------------------------------------------
(* The states the model starts from: the empty registry of a fresh         *)
(* process, and the registry left by p submissions of one owner (JWST, no  *)
(* uploads) whose jobs have finished, but for the oldest, which still      *)
(* runs: p = 1, and p = Capacity - 1, one short of the capacity.           *)

PreFills(w) ==
    IF w = "burst" THEN {Capacity}
    ELSE IF w = "forms" THEN {0, Capacity - 1}
    ELSE IF w = "dashboard" THEN {0, 2}
    ELSE IF w = "sharing" THEN {1}
    ELSE {0}

\* the registry after the submissions 1..p, p <= Capacity: _add_task gave the
\* k-th record count k and evicted nothing
Fill(p) ==
    [k \in 1..p |-> [id |-> NewId(k, "e"), name |-> CalcName, task |-> k,
                     cookie |-> "u1", count |-> k]]

Init ==
    \E w \in Workloads : \E p \in PreFills(w) :
       /\ workload = w
       /\ buffer = Fill(p)
       /\ fut = [k \in 1..p |-> [st |-> IF k = 1 THEN "running" ELSE "finished",
                                 exc |-> FALSE]]
       /\ files = {}
       /\ nuuid = p
       /\ nposts = 0
       /\ submitted = [k \in 1..p |-> [id |-> NewId(k, "e"), cookie |-> "u1", ups |-> {}]]
       /\ loop = Idle
       /\ backlog = EmptyBag
       /\ resp = NoResp

Next ==
    \/ DashboardHandlerGet
    \/ DashboardHSTHandlerGet
    \/ CalculationNewHandlerPost
    \/ CalculationNewHSTHandlerPost
    \/ CalculationStatusHandlerGet
    \/ CalculationStatusHSTHandlerGet
    \/ CalculationDownloadHandlerGet
    \/ CalculationDownloadPandInHandlerGet
    \/ CalculationViewHandlerGet
    \/ CalculationViewHSTHandlerGet
    \/ ResultReturns
    \/ Arrive
    \/ WorkerStart
    \/ WorkerFinish

Spec == Init /\ [][Next]_vars

\* the IOLoop runs the handler of a request
Dispatch ==
    \/ DashboardHandlerGet
    \/ DashboardHSTHandlerGet
    \/ CalculationNewHandlerPost
    \/ CalculationNewHSTHandlerPost
    \/ CalculationStatusHandlerGet
    \/ CalculationStatusHSTHandlerGet
    \/ CalculationDownloadHandlerGet
    \/ CalculationDownloadPandInHandlerGet
    \/ CalculationViewHandlerGet
    \/ CalculationViewHSTHandlerGet

\* The IOLoop dispatches a waiting request when its thread is free, and
\* returns from result() once the future is done; the pool starts a pending
\* job when a worker is free.  A compute function may run for ever:
\* WorkerFinish is under no fairness.
FairSpec ==
    /\ Spec
    /\ WF_vars(backlog # EmptyBag /\ Dispatch)
    /\ WF_vars(ResultReturns)
    /\ WF_vars(WorkerStart)

\* the workloads that start from a registry of a few records
SmallWorkloads == {w \in Workloads : \A p \in PreFills(w) : p < Workers}

LiveInit == Init /\ workload \in SmallWorkloads

\* Every compute function terminates.  Whether a job is started and
\* finishes does not depend on the registry, which no worker process reads:
\* the runs are those that start from a small registry.
LiveSpec ==
    /\ LiveInit
    /\ [][Next]_vars
    /\ WF_vars(backlog # EmptyBag /\ Dispatch)
    /\ WF_vars(ResultReturns)
    /\ WF_vars(WorkerStart)
    /\ WF_vars(WorkerFinish)

----------------------------------------------------------------------------
(* The status projection as a function of the handle.  The program never   *)
(* calls Future.cancel(), so Spec reaches no cancelled future; here the    *)
(* registry holds one record whose future is in any state a Future can be  *)
(* in, and the two status handlers project it.                             *)

\* the states of a Future, with the outcome of a finished one
Handles ==
    {[st |-> st, exc |-> FALSE] : st \in {"pending", "running", "finished", "cancelled"}}
        \cup {[st |-> "finished", exc |-> TRUE]}

\* the count of the record: of a first submission, of the submission that
\* fills the registry, and of one into a full registry
Counts == {1, Capacity, Capacity + 1}

ProjInit ==
    \E h \in Handles, tag \in {"e", "h"}, c \in Counts, o \in Owners :
       /\ workload = "projection"
       /\ buffer = <<[id |-> NewId(1, tag), name |-> CalcName, task |-> 1,
                      cookie |-> o, count |-> c]>>
       /\ fut = <<h>>
       /\ files = {}
       /\ nuuid = 1
       /\ nposts = 0
       /\ submitted = <<[id |-> NewId(1, tag), cookie |-> o, ups |-> {}]>>
       /\ loop = Idle
       /\ backlog = EmptyBag
       /\ resp = NoResp

\* CalculationStatusHandler.get for the record, connection open
ProjectJwst ==
    /\ resp' = Response("status", buffer[1].id, "", 200, "written",
                        GetTaskResponse(buffer, fut, buffer[1].id))
    /\ UNCHANGED <<buffer, fut, files, nuuid, nposts, submitted, loop, backlog, workload>>

\* CalculationStatusHSTHandler.get for the record, connection open
ProjectHst ==
    /\ resp' = Response("statushst", buffer[1].id, "", 200, "written",
                        GetTaskResponseHst(buffer, fut, buffer[1].id))
    /\ UNCHANGED <<buffer, fut, files, nuuid, nposts, submitted, loop, backlog, workload>>

ProjNext == ProjectJwst \/ ProjectHst

ProjSpec == ProjInit /\ [][ProjNext]_vars

----------------------------------------------------------------------------
(* Eviction of jobs that have not started.  The pool starts its work items *)
(* oldest first, so a record whose job is pending is the oldest of the     *)
(* registry only when every record holds a pending job: one owner has      *)
(* submitted Capacity + Workers JWST jobs, the pool runs the first Workers *)
(* of them, whose records were evicted, and the rest wait.  The owner      *)
(* submits again.                                                          *)

AbandonInit ==
    /\ workload = "abandon"
    /\ buffer = [i \in 1..Capacity |->
                   [id |-> NewId(i + Workers, "e"), name |-> CalcName,
                    task |-> i + Workers, cookie |-> "u1",
                    count |-> IF i + Workers <= Capacity THEN i + Workers
                              ELSE Capacity + 1]]
    /\ fut = [k \in 1..(Capacity + Workers) |->
                 [st |-> IF k <= Workers THEN "running" ELSE "pending", exc |-> FALSE]]
    /\ files = {}
    /\ nuuid = Capacity + Workers
    /\ nposts = 0
    /\ submitted = [k \in 1..(Capacity + Workers) |->
                       [id |-> NewId(k, "e"), cookie |-> "u1", ups |-> {}]]
    /\ loop = Idle
    /\ backlog = EmptyBag
    /\ resp = NoResp

\* the jobs of the queue the pool has started in this run
Started == {k \in (Workers + 1)..Len(fut) : fut[k].st # "pending"}

\* WorkerStart, for the first MaxStarts jobs of the queue
AbandonStart ==
    /\ Cardinality(Started) < MaxStarts
    /\ WorkerStart

AbandonNext ==
    \/ CalculationNewHandlerPost
    \/ CalculationNewHSTHandlerPost
    \/ AbandonStart
    \/ WorkerFinish

\* Every compute function terminates, and the pool starts a pending job
\* when a worker is free.
AbandonSpec ==
    /\ AbandonInit
    /\ [][AbandonNext]_vars
    /\ WF_vars(AbandonStart)
    /\ WF_vars(WorkerFinish)

----------------------------------------------------------------------------
(* Properties *)

SubmittedIds == [i \in 1..Len(submitted) |-> submitted[i].id]

Streamed == resp.kind \in {"download", "downloadpandin"} /\ resp.out = "streamed"

Viewed == resp.kind \in {"view", "viewhst"} /\ resp.out = "rendered"

NoFileOf(id) == \A f \in files : ~Contains(f, id)

UploadsOf(id) == {submitted[i].ups : i \in {j \in 1..Len(submitted) : submitted[j].id = id}}

\* C1: after any sequence of submissions the registry holds at most
\* Capacity = 100 records.
C1_AtMostCapacity == Len(buffer) <= Capacity

\* reached: a submission that came after more than Capacity others
C1_Witness ==
    /\ resp.kind \in PostKinds /\ resp.status = 302
    /\ Len(submitted) > Capacity
    /\ Len(buffer) = Capacity

\* C2: after k > Capacity submissions the registry holds exactly the last
\* Capacity submitted records in submission order, the job submitted first is
\* no longer in it, the submitter got no error, and when all submissions were
\* of one owner and one tag the owner's listing has Capacity entries.
C2_LastCapacityKept ==
    Len(submitted) > Capacity =>
        /\ Ids(buffer) = SubSeq(SubmittedIds, Len(submitted) - Capacity + 1, Len(submitted))
        /\ ~Has(buffer, submitted[1].id)
        /\ (resp.kind \in PostKinds /\ resp.id = submitted[Len(submitted)].id)
              => resp.status = 302
        /\ (\A i \in 1..Len(submitted) :
               submitted[i].cookie = "u1" /\ LastChar(submitted[i].id) = "e")
              => Len(SelectSeq(buffer, LAMBDA nt : DashboardFilter(nt, "u1"))) = Capacity

\* reached: submission Capacity + 1 by the owner and tag of all others, which
\* evicted the record of a job that is still running
C2_Witness ==
    /\ resp.kind = "new"
    /\ Len(submitted) = Capacity + 1
    /\ \A i \in 1..Len(submitted) :
          submitted[i].cookie = "u1" /\ LastChar(submitted[i].id) = "e"
    /\ Running(fut[1])
    /\ ~Has(buffer, submitted[1].id)

\* C3: after N <= Capacity submissions the registry holds N records, in the
\* order they were submitted.
C3_AllKeptInOrder == Len(submitted) <= Capacity => Ids(buffer) = SubmittedIds

\* reached: the submission that fills the registry to Capacity exactly
C3_Witness ==
    /\ resp.kind \in PostKinds /\ resp.status = 302
    /\ Len(submitted) = Capacity
    /\ Len(buffer) = Capacity

\* C4: the dashboard listing for (owner, tag) holds exactly the registry
\* records of that owner whose id ends in that tag, each once, and, read from
\* its last entry to its first, in insertion order.
C4_ListingExact ==
    resp.kind \in {"dashboard", "dashboardhst"} =>
        LET tag == IF resp.kind = "dashboard" THEN "e" ELSE "h"
            listed == Reverse(resp.body)
            pos(i) == CHOOSE j \in 1..Len(buffer) : buffer[j].id = listed[i].id
        IN  /\ \A i \in 1..Len(listed) :
                  /\ Has(buffer, listed[i].id)
                  /\ buffer[pos(i)].cookie = resp.cookie
                  /\ LastChar(listed[i].id) = tag
            /\ \A j \in 1..Len(buffer) :
                  (buffer[j].cookie = resp.cookie /\ LastChar(buffer[j].id) = tag)
                      => \E i \in 1..Len(listed) : listed[i].id = buffer[j].id
            /\ \A i \in 1..(Len(listed) - 1) : pos(i) < pos(i + 1)

\* reached: a listing of two or more records while the registry also holds a
\* record of another owner and a record of the other tag
C4_Witness ==
    /\ resp.kind = "dashboard"
    /\ Len(resp.body) >= 2
    /\ \E j \in 1..Len(buffer) : buffer[j].cookie # resp.cookie
    /\ \E j \in 1..Len(buffer) :
          buffer[j].cookie = resp.cookie /\ LastChar(buffer[j].id) = "h"

\* C5: a status, view or download request for an id that is not in the
\* registry is answered with a client error (4xx) and leaves the registry
\* as it was.
C5_UnknownIdIsClientError ==
    [][(resp'.kind \in IdKinds /\ ~Has(buffer, resp'.id))
          => (resp'.status \in 400..499 /\ buffer' = buffer)]_vars

StatusWaiting ==
    Waiting({"status", "statushst"}) # EmptyBag

\* C6: a status poll is always eventually answered, however long a job runs
\* and whatever request waits for that job's result.
C6_PollEventuallyAnswered == StatusWaiting ~> ~StatusWaiting

\* C7: while a request waits in result() for an unfinished job, a request of
\* another caller can be handled.
C7_OthersServedWhileWaiting == (loop # Idle /\ backlog # EmptyBag) => ENABLED Dispatch

\* C8: a submission finds its id absent from the registry and leaves the
\* registry as the records it held, less the oldest one if it was full, then
\* the new record: requests in flight together are handled one at a time.
C8_Serialised ==
    [][Len(submitted') # Len(submitted) =>
          LET new == submitted'[Len(submitted')]
          IN  /\ Len(submitted') = Len(submitted) + 1
              /\ ~Has(buffer, new.id)
              /\ Len(buffer') >= 1
              /\ buffer'[Len(buffer')].id = new.id
              /\ SubSeq(buffer', 1, Len(buffer') - 1)
                    = IF Len(buffer) < Capacity THEN buffer ELSE Tail(buffer)]_vars

\* reached: two submissions waited together while a view waited for its job;
\* one of them has been handled, found the registry full and evicted a
\* record, the other still waits
C8_Witness ==
    /\ resp.kind \in PostKinds /\ resp.status = 302
    /\ Len(submitted) > Capacity
    /\ Waiting(PostKinds) # EmptyBag

\* C9: after a download (either format) of a registered job whose compute
\* succeeded has streamed its file, no file of __TEMP__ has a name that
\* contains the job's id.
C9_DownloadLeavesNoFile == Streamed => NoFileOf(resp.id)

\* reached: the download of a job that uploaded input files at submission
C9_Witness == Streamed /\ UploadsOf(resp.id) # {{}}

\* C10: after a results view has rendered a job of its own family (JWST or
\* HST), no file of __TEMP__ has a name that contains the job's id.
C10_ViewLeavesNoFile ==
    (Viewed /\ ~Foreign(resp.kind, resp.id)) => NoFileOf(resp.id)

\* a file a download handler wrote for streaming
IsArtifact(f) == f[1] \in {PickleName(NoId)[1], PandInName(NoId)[1]}

\* C11: no request for a job is ever between writing its download file and
\* the end of its read of it when another step runs: in every state, also
\* while requests for the same job wait, no download file exists; each was
\* written, read and swept inside one step.
C11_NoRequestMidStream == \A f \in files : ~IsArtifact(f)

\* reached: a download of a job has streamed while another request for the
\* same job, which arrived before it was handled, still waits
C11_Witness ==
    /\ Streamed
    /\ \E r \in BagToSet(backlog) : r.id = resp.id /\ r.kind \in ResultKinds

\* the status snapshots the last response carries
Snapshots ==
    IF resp.kind \in {"dashboard", "dashboardhst"}
    THEN {resp.body[i] : i \in 1..Len(resp.body)}
    ELSE IF resp.out \in {"written", "redirect"}
    THEN {resp.body}
    ELSE {}

\* the future of the job a snapshot is about
HandleOf(s) == fut[Get(buffer, s.id).task]

\* C12: no status snapshot reports a failed state, also not for a job whose
\* compute function has raised and on which result() was never called.
C12_NeverFailed == \A s \in Snapshots : s.state \notin {"failed", "error"}

\* reached: the status of a job whose compute function has raised, written
\* in a run whose clients never ask for a result
C12_Witness ==
    /\ workload = "forms"
    /\ resp.kind \in {"status", "statushst"} /\ resp.out = "written"
    /\ HandleOf(resp.body).exc

\* the state the fixed order gives a handle
StateInOrder(h) ==
    CASE Running(h) -> "running"
      [] ~Running(h) /\ Done(h) -> "finished"
      [] ~Running(h) /\ ~Done(h) /\ Cancelled(h) -> "cancelled"
      [] OTHER -> "pending"

\* C17: the state of a snapshot is running if the handle reports running,
\* else finished if it reports done, else cancelled if it reports cancelled,
\* else pending; the JWST and the HST projection agree on it.
C17_StateOrder ==
    /\ \A s \in Snapshots : s.state = StateInOrder(HandleOf(s))
    /\ \A s \in Snapshots :
          GetTaskResponse(buffer, fut, s.id).state
             = GetTaskResponseHst(buffer, fut, s.id).state

\* reached: the HST projection of a cancelled handle, which reports done
\* before it is asked whether it was cancelled
C17_Witness ==
    /\ resp.kind = "statushst"
    /\ Cancelled(fut[1])
    /\ resp.body.state = "finished"

\* C18: a snapshot carries a code if and only if its state is running, and
\* the code is 202.
C18_CodeIffRunning ==
    \A s \in Snapshots :
       /\ ("code" \in DOMAIN s) <=> (s.state = "running")
       /\ ("code" \in DOMAIN s) => s.code = 202

\* reached: a dashboard listing with a running job and a finished one
C18_Witness ==
    /\ resp.kind = "dashboard"
    /\ \E s \in Snapshots : s.state = "running" /\ s.code = 202
    /\ \E s \in Snapshots : s.state = "finished"

\* C19 as stated: the snapshot of a job whose compute function has raised
\* reports state running.
C19_RaisedLooksRunning ==
    \A s \in Snapshots :
       (Done(HandleOf(s)) /\ HandleOf(s).exc) => s.state = "running"

\* C19 amended: the snapshot of a job whose compute function has raised is
\* the snapshot of a job that finished normally: state finished, no code.
C19_RaisedLooksFinished ==
    \A s \in Snapshots :
       (Done(HandleOf(s)) /\ HandleOf(s).exc)
          => s = Snapshot(Get(buffer, s.id), s.id, "finished")

\* reached: the status of a job whose compute function has raised, written
\* before any request asked for its result
C19_Witness ==
    /\ workload = "forms"
    /\ resp.kind = "status" /\ resp.out = "written"
    /\ Done(HandleOf(resp.body)) /\ HandleOf(resp.body).exc
    /\ resp.body.state = "finished"

\* the response was built on what result() gave for a future
OnResult == resp.result.task # 0

\* C13: a view or download of a job whose compute function raised ends as
\* an error response (500) that carries that job's exception, kind and
\* message; it is never a success and result() returns no value.
C13_ErrorPropagated ==
    (OnResult /\ fut[resp.result.task].exc) =>
        /\ resp.result.raised
        /\ resp.result.val = Error(resp.result.task)
        /\ resp.status = 500 /\ resp.out = "error"
        /\ resp.body = Error(resp.result.task)

\* reached: the download of a job whose compute function raised
C13_Witness ==
    /\ resp.kind \in {"download", "downloadpandin"}
    /\ OnResult /\ resp.result.raised

JobSlots ==
    {1} \cup UNION {(p + 1)..(p + MaxSubmit) : p \in UNION {PreFills(w) : w \in SmallWorkloads}}

\* C15: every submitted job is eventually done; a request that waits in
\* result() eventually gets its response; and what result() gives for a job
\* whose compute function returned is the value it returned.
C15_FinishesAndReturns ==
    /\ \A k \in JobSlots : (Len(fut) >= k) ~> (Len(fut) >= k /\ Done(fut[k]))
    /\ (loop # Idle) ~> (loop = Idle)
    /\ [](OnResult /\ ~fut[resp.result.task].exc
            => ~resp.result.raised /\ resp.result.val = Value(resp.result.task))

\* reached: a job submitted after Init has been started and has finished,
\* and a view or download of it got the value its compute function returned
C15_Witness ==
    /\ nposts > 0
    /\ OnResult /\ ~resp.result.raised
    /\ resp.out \in {"rendered", "streamed"}
    /\ resp.id = submitted[Len(submitted)].id
    /\ resp.result.val = Value(Len(fut))

\* C16: a post that did not end in the redirect left no record of its id
\* and the registry as the accepted submissions made it, and every record
\* of the registry has a name, an owner, a count and a future.
C16_NoHalfCreatedRecord ==
    /\ (resp.kind \in PostKinds /\ resp.status # 302) => ~Has(buffer, resp.id)
    /\ \A i \in 1..Len(buffer) :
          /\ buffer[i].id = SubmittedIds[Len(submitted) - Len(buffer) + i]
          /\ buffer[i].name = CalcName
          /\ buffer[i].cookie # NoCookie
          /\ buffer[i].count \in 1..(Capacity + 1)
          /\ buffer[i].task \in 1..Len(fut)

\* C20: in every step, a record that enters the registry has as count the
\* size of the registry before the step plus 1, and a record that stays in
\* the registry keeps its count, whatever the step inserts or evicts (a step
\* that leaves the registry as it is changes no count).
C20_CountFixedAtInsertion ==
    [][\/ buffer' = buffer
       \/ \A i \in 1..Len(buffer') :
             IF Has(buffer, buffer'[i].id)
             THEN buffer'[i].count = Get(buffer, buffer'[i].id).count
             ELSE buffer'[i].count = Len(buffer) + 1]_vars

\* reached: two submissions into a full registry, each of which evicted the
\* oldest record: both new records have count Capacity + 1 and the oldest
\* record left is not numbered 1
C20_Witness ==
    /\ resp.kind \in PostKinds /\ resp.status = 302
    /\ Len(buffer) = Capacity
    /\ buffer[Capacity].count = Capacity + 1
    /\ buffer[Capacity - 1].count = Capacity + 1
    /\ buffer[1].count > 1

\* how far along pending -> running -> finished a reported state is
Rank(state) ==
    CASE state = "pending" -> 0
      [] state = "running" -> 1
      [] OTHER -> 2

\* the id was registered and its record is no longer in the registry
Evicted(buf, id) ==
    /\ \E i \in 1..Len(submitted) : submitted[i].id = id
    /\ ~Has(buf, id)

\* the i-th record after the step was in the registry before it, where it is
\* now or one place further back
Kept(i) ==
    \/ i <= Len(buffer) /\ buffer[i] = buffer'[i]
    \/ i + 1 <= Len(buffer) /\ buffer[i + 1] = buffer'[i]

\* the step left the i-th record, and the future it holds, as they were: a
\* poll reports for it what it reported before the step
Untouched(i) ==
    /\ Kept(i)
    /\ buffer'[i].task <= Len(fut)
    /\ fut'[buffer'[i].task] = fut[buffer'[i].task]

\* C21: in every step, the state a poll reports for a job of the registry
\* is the state it reported before the step or one further along pending ->
\* running -> finished (so no poll after one that reported finished reports
\* running or pending, none after running reports pending); an id whose
\* record was evicted is not in the registry after the step, and a request
\* for it is answered with the error of an unknown id.
C21_ForwardOnly ==
    [][/\ \/ UNCHANGED <<buffer, fut>>
          \/ \A i \in 1..Len(buffer') :
                (~Untouched(i) /\ Has(buffer, buffer'[i].id)) =>
                   /\ Rank(GetTaskResponse(buffer', fut', buffer'[i].id).state)
                         >= Rank(GetTaskResponse(buffer, fut, buffer'[i].id).state)
                   /\ Rank(GetTaskResponseHst(buffer', fut', buffer'[i].id).state)
                         >= Rank(GetTaskResponseHst(buffer, fut, buffer'[i].id).state)
       /\ \/ buffer' = buffer
          \/ \A i \in 1..Len(buffer') :
                Kept(i) \/ ~Evicted(buffer, buffer'[i].id)
       /\ (resp'.kind \in IdKinds /\ Evicted(buffer, resp'.id))
             => resp' = ServerError(resp'.kind, resp'.id)]_vars

\* reached: a poll reports finished for a job submitted in this run, after
\* the submissions evicted the oldest record, whose job still runs
C21_Witness ==
    /\ resp.kind = "status" /\ resp.out = "written"
    /\ nposts > 0
    /\ resp.id = submitted[Len(submitted)].id
    /\ resp.body.state = "finished"
    /\ Evicted(buffer, submitted[1].id)
    /\ Running(fut[1])

\* the oldest job of the queue, not started, and its record evicted
AbandonedPending ==
    /\ Evicted(buffer, submitted[Workers + 1].id)
    /\ fut[Workers + 1].st = "pending"

\* C22: a step that evicts a record leaves every future that existed as it
\* was, cancels none, and ends in the redirect of an accepted submission; a
\* job that was pending when its record was evicted is later started and
\* runs to its end.
C22_EvictionAbandons ==
    /\ [][(\E i \in 1..Len(buffer) : ~Has(buffer', buffer[i].id)) =>
             /\ SubSeq(fut', 1, Len(fut)) = fut
             /\ \A k \in 1..Len(fut') : ~Cancelled(fut'[k])
             /\ resp'.kind \in PostKinds /\ resp'.status = 302]_vars
    /\ AbandonedPending ~> (fut[Workers + 1].st = "finished")

\* reached: the submission that evicted the record of a job that has not
\* started has been answered
C22_Witness ==
    /\ resp.kind \in PostKinds /\ resp.status = 302
    /\ AbandonedPending

\* the last response answers a post that reached _add_task
Accepted ==
    /\ resp.kind \in PostKinds
    /\ Len(submitted) > 0
    /\ resp.id = submitted[Len(submitted)].id

\* C23: a post that reached _add_task finds the record it inserted: it ends
\* in the redirect, never in an error, the registry holds the record of its
\* id as the newest, and the snapshot it hands on is that record's.
C23_InsertedNotEvicted ==
    Accepted =>
       /\ resp.status = 302
       /\ Has(buffer, resp.id)
       /\ buffer[Len(buffer)].id = resp.id
       /\ resp.body.id = resp.id
       /\ resp.body.count = Get(buffer, resp.id).count

\* reached: a post into a registry that held Capacity records has been
\* answered
C23_Witness ==
    /\ Accepted
    /\ resp.status = 302
    /\ Len(buffer) = Capacity
    /\ resp.body.count = Capacity + 1

\* C24: a step that changes the registry is an accepted post; and a download
\* (either format, connection open) asked of a job right after a download
\* of it streamed and swept finds the record, writes the file again and
\* streams it.
C24_OnlySubmissionWrites ==
    [][/\ buffer' # buffer =>
             /\ resp'.kind \in PostKinds /\ resp'.status = 302
             /\ Len(submitted') = Len(submitted) + 1
       /\ (/\ Streamed
           /\ resp'.kind \in {"download", "downloadpandin"}
           /\ resp'.id = resp.id
           /\ ~Foreign(resp'.kind, resp'.id)
           /\ resp'.out # "closed")
             => /\ Has(buffer', resp'.id)
                /\ resp'.out = "streamed"
                /\ resp'.body \in {PickleName(resp.id), PandInName(resp.id)}
                /\ resp'.result.val = resp.result.val]_vars

\* reached: the second of two downloads of a job has streamed, after the
\* first streamed its file and swept it
C24_Witness ==
    /\ Streamed
    /\ resp.result.again /\ resp.result.after = "streamed"
    /\ Has(buffer, resp.id)
    /\ NoFileOf(resp.id)

\* the place among all accepted submissions of the i-th record of the
\* registry
SubmissionOf(i) == Len(submitted) - Len(buffer) + i

\* C25: every count is in 1..Capacity + 1; the record of the n-th accepted
\* submission has count n when n <= Capacity, and Capacity + 1 when it was
\* inserted into a registry that held Capacity records.
C25_CountRange ==
    \A i \in 1..Len(buffer) :
       /\ buffer[i].count \in 1..(Capacity + 1)
       /\ buffer[i].count = IF SubmissionOf(i) <= Capacity
                             THEN SubmissionOf(i)
                             ELSE Capacity + 1

\* reached: after Capacity + 2 submissions the registry holds two records
\* with the same count
C25_Witness ==
    /\ Len(submitted) = Capacity + 2
    /\ \E i, j \in (Len(buffer) - 2)..Len(buffer) :
          i >= 1 /\ j >= 1 /\ i # j /\ buffer[i].count = buffer[j].count

\* C26: a file that is in __TEMP__ before a step and not after it has the
\* id of the step's request in its name, and the request is a download or a
\* JWST view that was answered; every other file is in __TEMP__ after the
\* step.
C26_SweepOnlyOwnFiles ==
    [][\A f \in files \ files' :
          /\ resp'.kind \in {"download", "downloadpandin", "view"}
          /\ resp'.out \in {"streamed", "rendered"}
          /\ Contains(f, resp'.id)]_vars

\* reached: a download or view has swept the uploads of its job, and the
\* uploads of another job are in __TEMP__
C26_Witness ==
    /\ Streamed \/ Viewed
    /\ UploadsOf(resp.id) # {{}}
    /\ NoFileOf(resp.id)
    /\ \E i \in 1..Len(submitted) :
          /\ submitted[i].id # resp.id
          /\ submitted[i].ups # {}
          /\ \A w \in submitted[i].ups : UploadName(submitted[i].id, w) \in files

\* the last response is the error of a view or download whose result()
\* raised the exception of the compute function
ResultRaised ==
    /\ resp.kind \in ResultKinds
    /\ resp.result.raised
    /\ resp.status = 500

\* the last response is the error of a view or download of an id that is
\* not in the registry
NotRegistered ==
    /\ resp.kind \in ResultKinds
    /\ ~Has(buffer, resp.id)

\* C27: a step that answers a view or download of a job whose compute
\* function raised, or of an id that is not in the registry, leaves
\* __TEMP__ as it was: no file is written and none is removed.
C27_FailedFetchLeavesFiles ==
    [][(ResultRaised' \/ NotRegistered') => (files' = files /\ resp'.status = 500)]_vars

\* reached: a view or download of a job whose compute function raised has
\* been answered, and the files uploaded for that job are in __TEMP__
C27_Witness ==
    /\ ResultRaised
    /\ UploadsOf(resp.id) # {{}}
    /\ \A ups \in UploadsOf(resp.id) : \A w \in ups : UploadName(resp.id, w) \in files

\* the last response is a status written right after a view or download of
\* the same job ended in the error its result() raised
PolledAfterRaise ==
    /\ resp.kind \in {"status", "statushst"} /\ resp.out = "written"
    /\ resp.result.after = "error"
    /\ HandleOf(resp.body).exc

\* C28: every snapshot reports one of pending, running, finished and
\* cancelled; the snapshot of a job whose compute function has ended by
\* raising reports finished, and so does the status written right after
\* result() raised for that job in a view or download.
C28_FinishedAfterRaise ==
    /\ \A s \in Snapshots :
          /\ s.state \in {"pending", "running", "finished", "cancelled"}
          /\ (HandleOf(s).st = "finished" /\ HandleOf(s).exc) => s.state = "finished"
    /\ PolledAfterRaise => (resp.body.state = "finished" /\ "code" \notin DOMAIN resp.body)

\* reached: the status of a job written right after a view of it ended in
\* the error its result() raised
C28_Witness ==
    /\ PolledAfterRaise
    /\ resp.body.state = "finished"

====
